---- MODULE Spec2Model ----
(***************************************************************************)
(* The Galactic Archives staff portal backend: the pool handle of          *)
(* database.py, the token settings of config.py, and the auth gate, the    *)
(* login and refresh endpoints and the resource handlers of main.py, over  *)
(* a relational store (users, tickets, ticket_messages, kb_articles).      *)
(* Time is counted in minutes.                                             *)
(***************************************************************************)
EXTENDS Integers, Sequences, FiniteSets, TLC

VARIABLES
    conn_pool,        \* database.conn_pool: "None", "open" or "closed"
    phase,            \* lifespan of the app: "init", "serving", "stopped", "failed"
    now,              \* the clock, in minutes
    nticks,           \* how many times the clock has advanced
    users,            \* table users: id -> row
    tickets,          \* table tickets: id -> row
    ticket_messages,  \* table ticket_messages, in insertion order
    kb_articles,      \* table kb_articles: id -> row
    kb_next_id,       \* the SERIAL sequence of kb_articles.id
    issued,           \* every token the codec has signed so far
    req,              \* the request being served, or the last one served
    resp,             \* the outcome of the last request that ended
    nreq              \* how many requests have arrived

vars == <<conn_pool, phase, now, nticks, users, tickets, ticket_messages,
          kb_articles, kb_next_id, issued, req, resp, nreq>>

store == <<users, tickets, ticket_messages, kb_articles, kb_next_id>>

-----------------------------------------------------------------------------
(* Bounds of the model *)

MaxRequests == 2
MaxTicks == 1

(* config.Settings *)

ACCESS_TOKEN_EXPIRE_MINUTES == 30
REFRESH_TOKEN_EXPIRE_DAYS == 7
JWT_SECRET == "your-secret-key-change-in-production"
JWT_ALGORITHM == "HS256"

MinutesPerDay == 24 * 60

\* the amounts by which the clock advances: within an access token's life,
\* past it, and past a refresh token's life
TickSteps == {ACCESS_TOKEN_EXPIRE_MINUTES + 1,
              REFRESH_TOKEN_EXPIRE_DAYS * MinutesPerDay + 1}

-----------------------------------------------------------------------------
(* Input domains *)

UserIds == {1, 2}
Emails == {"alice@example.com", "bob@example.com", "nobody@example.com"}
Passwords == {"alice-pw", "bob-pw"}
\* the ticket ids a request names: one that exists and one that does not
TicketIds == {1, 3}
ArticleIds == {1, 2}
UpdateStatuses == {"open", "closed"}
\* the status query parameter of get_tickets: None when absent
NoStatus == [present |-> FALSE, value |-> ""]
StatusFilters ==
    {NoStatus} \cup {[present |-> TRUE, value |-> v] :
                         v \in {"", "all", "open", "closed"}}
Notes == {"note"}
ArticleData == {[title |-> "FAQ", category |-> "general", content |-> "v1"],
                [title |-> "Guide", category |-> "howto", content |-> "v2"]}

-----------------------------------------------------------------------------
(* security.py: password hashing and the token codec *)

hash_password(password) == <<"hashed", password>>

verify_password(password, hashed) == hashed = hash_password(password)

NoPayload == [sub |-> "", user_id |-> 0, is_staff |-> FALSE, type |-> "",
              exp |-> 0, iat |-> 0]

\* the signature of a payload under the shared secret
Sign(p) == <<JWT_ALGORITHM, JWT_SECRET, p.sub, p.user_id, p.is_staff, p.type,
             p.exp, p.iat>>

NoToken == [payload |-> NoPayload, sig |-> <<>>]

\* issue(claims, kind, ttl) at time t
Issue(data, kind, ttl, t) ==
    LET p == [sub |-> data.sub, user_id |-> data.user_id,
              is_staff |-> data.is_staff, type |-> kind,
              exp |-> t + ttl, iat |-> t]
    IN  [payload |-> p, sig |-> Sign(p)]

AccessTokenAt(data, t) == Issue(data, "access", ACCESS_TOKEN_EXPIRE_MINUTES, t)

RefreshTokenAt(data, t) ==
    Issue(data, "refresh", REFRESH_TOKEN_EXPIRE_DAYS * MinutesPerDay, t)

create_access_token(data) == AccessTokenAt(data, now)

create_refresh_token(data) == RefreshTokenAt(data, now)

\* the claims of a token, or NoPayload (a falsy result) when the signature
\* does not match or the expiry is in the past
decode_token(token) ==
    IF token.sig /= Sign(token.payload) THEN NoPayload
    ELSE IF token.payload.exp < now THEN NoPayload
    ELSE token.payload

-----------------------------------------------------------------------------
(* What a client can present *)

OtherKind(kind) == IF kind = "access" THEN "refresh" ELSE "access"

\* a signed token whose payload was altered afterwards, the signature kept
Tampered(tok) ==
    {[tok EXCEPT !.payload.type = OtherKind(@)],
     [tok EXCEPT !.payload.exp = @ + REFRESH_TOKEN_EXPIRE_DAYS * MinutesPerDay]}

Presentable == issued \cup UNION {Tampered(tok) : tok \in issued}

NoAuth == [scheme |-> "none", token |-> NoToken]

\* the authorization value of a request: absent, another scheme, or Bearer
AuthValues ==
    {NoAuth, [scheme |-> "Basic", token |-> NoToken]}
    \cup {[scheme |-> "Bearer", token |-> tok] : tok \in Presentable}

-----------------------------------------------------------------------------
(* Outcomes of a request *)

NoBody == [kind |-> "none"]

Returned(body) ==
    [raised |-> "none", status |-> 200, detail |-> "", body |-> body]

HTTPException(status_code, detail) ==
    [raised |-> "HTTPException", status |-> status_code, detail |-> detail,
     body |-> NoBody]

\* an exception that no handler catches, leaving the application code
Propagated(exception) ==
    [raised |-> exception, status |-> 0, detail |-> "", body |-> NoBody]

NoResp == [raised |-> "none", status |-> 0, detail |-> "", body |-> NoBody]

NoArgs == [none |-> TRUE]

NoReq == [ep |-> "none", auth |-> NoAuth, args |-> NoArgs, user |-> NoPayload,
          pc |-> "idle"]

-----------------------------------------------------------------------------
(* database.py *)

\* get_postgres: the pool, or RuntimeError while conn_pool is None
get_postgres_raises == conn_pool = "None"

\* init_postgres: create the pool, then the tables; a failure is re-raised
\* and the application does not start
init_postgres(pool_ok, ddl_ok) ==
    /\ phase = "init"
    /\ conn_pool' = IF pool_ok THEN "open" ELSE conn_pool
    /\ phase' = IF pool_ok /\ ddl_ok THEN "serving" ELSE "failed"
    /\ UNCHANGED <<now, nticks, store, issued, req, resp, nreq>>

\* close_postgres, at shutdown, once the requests in flight have ended: the
\* pool is closed, conn_pool is not reset, and the process serves no more
close_postgres ==
    /\ phase = "serving"
    /\ req.pc /= "handler"
    /\ conn_pool' = IF conn_pool /= "None" THEN "closed" ELSE conn_pool
    /\ phase' = "stopped"
    /\ req' = NoReq
    /\ resp' = NoResp
    /\ UNCHANGED <<now, nticks, store, issued, nreq>>

\* the tokens of a login of alice ten minutes before this process started:
\* tokens are not persisted, and stay valid across a restart
EarlierLogin == [sub |-> "alice@example.com", user_id |-> 1, is_staff |-> TRUE]

Init ==
    /\ conn_pool = "None"
    /\ phase = "init"
    /\ now = 0
    /\ nticks = 0
    /\ users = (1 :> [id |-> 1, email |-> "alice@example.com",
                      username |-> "alice",
                      hashed_password |-> hash_password("alice-pw"),
                      is_staff |-> TRUE]
                @@ 2 :> [id |-> 2, email |-> "bob@example.com",
                         username |-> "bob",
                         hashed_password |-> hash_password("bob-pw"),
                         is_staff |-> FALSE])
    /\ tickets = (1 :> [id |-> 1, user_id |-> 2, title |-> "lost badge",
                        description |-> "badge lost", status |-> "open",
                        priority |-> "medium",
                        created_at |-> -2, updated_at |-> -2]
                  @@ 2 :> [id |-> 2, user_id |-> 1, title |-> "vpn",
                           description |-> "vpn down",
                           status |-> "in_progress", priority |-> "medium",
                           created_at |-> -1, updated_at |-> -1])
    /\ ticket_messages = <<>>
    /\ kb_articles = (1 :> [id |-> 1, title |-> "FAQ", category |-> "general",
                            content |-> "v1", is_published |-> FALSE,
                            created_at |-> -3, updated_at |-> -3])
    /\ kb_next_id = 2
    /\ issued = {AccessTokenAt(EarlierLogin, -10),
                 RefreshTokenAt(EarlierLogin, -10)}
    /\ req = NoReq
    /\ resp = NoResp
    /\ nreq = 0

-----------------------------------------------------------------------------
(* The world outside the portal: the clock and out-of-band changes of users *)

\* the world is followed while requests remain to observe it
Observed == phase = "serving" /\ nreq < MaxRequests

Tick(d) ==
    /\ Observed
    /\ nticks < MaxTicks
    /\ now' = now + d
    /\ nticks' = nticks + 1
    /\ UNCHANGED <<conn_pool, phase, store, issued, req, resp, nreq>>

\* users.is_staff is set out of band: the portal has no endpoint for it
SetStaff(u, flag) ==
    /\ Observed
    /\ u \in DOMAIN users
    /\ users[u].is_staff /= flag
    /\ users' = [users EXCEPT ![u].is_staff = flag]
    /\ UNCHANGED <<conn_pool, phase, now, nticks, tickets, ticket_messages,
                   kb_articles, kb_next_id, issued, req, resp, nreq>>

\* DELETE of a users row: tickets.user_id and ticket_messages.ticket_id
\* cascade, ticket_messages.user_id restricts
DeleteUser(u) ==
    LET keptTickets == {t \in DOMAIN tickets : tickets[t].user_id /= u}
        keptMessages ==
            SelectSeq(ticket_messages, LAMBDA m : m.ticket_id \in keptTickets)
    IN  /\ Observed
        /\ u \in DOMAIN users
        /\ \A i \in DOMAIN keptMessages : keptMessages[i].user_id /= u
        /\ users' = [v \in DOMAIN users \ {u} |-> users[v]]
        /\ tickets' = [t \in keptTickets |-> tickets[t]]
        /\ ticket_messages' = keptMessages
        /\ UNCHANGED <<conn_pool, phase, now, nticks, kb_articles, kb_next_id,
                       issued, req, resp, nreq>>

-----------------------------------------------------------------------------
(* main.py: the auth gate *)

\* stage 1: the authorization value is present and uses the Bearer scheme
BearerPresent(authorization) == authorization.scheme = "Bearer"

\* stage 2 without the check of the type claim
AccessPayloadOk_AnyKind(payload) == payload /= NoPayload

\* stage 2: the token decodes and is an access token
AccessPayloadOk(payload) == payload /= NoPayload /\ payload.type = "access"

\* stage 3: SELECT id, is_staff FROM users WHERE id = user_id
UserRowExists(payload) == payload.user_id \in DOMAIN users

\* the staff flag as the token asserts it, not as the store holds it
StaffFlag_FromClaim(payload) == payload.is_staff

\* user['is_staff'] of the row just fetched
StaffFlag(payload) == users[payload.user_id].is_staff

\* the outcome of the gate: the decoded claims, or the exception it raises;
\* storeFails is a failure of pool.acquire() or of the query
get_current_staff(authorization, storeFails) ==
    IF get_postgres_raises THEN Propagated("RuntimeError")
    ELSE IF ~BearerPresent(authorization)
    THEN HTTPException(401, "Not authenticated")
    ELSE LET payload == decode_token(authorization.token)
         IN  IF ~AccessPayloadOk(payload)
             THEN HTTPException(401, "Invalid token")
             ELSE IF storeFails THEN Propagated("PostgresError")
             ELSE IF ~UserRowExists(payload)
             THEN HTTPException(401, "User not found")
             ELSE IF ~StaffFlag(payload)
             THEN HTTPException(403, "Access denied. Staff access only.")
             ELSE Returned([kind |-> "claims", claims |-> payload])

CanAccept == phase = "serving" /\ req.pc /= "handler" /\ nreq < MaxRequests

\* a request to a resource endpoint arrives and its dependencies are
\* resolved: the handler body runs only when the gate returns
Request(authorization, storeFails) ==
    LET out == get_current_staff(authorization, storeFails)
    IN  /\ CanAccept
        /\ nreq' = nreq + 1
        /\ IF out.raised = "none"
           THEN /\ req' = [ep |-> "resource", auth |-> authorization,
                           args |-> NoArgs, user |-> out.body.claims,
                           pc |-> "handler"]
                /\ resp' = NoResp
           ELSE /\ req' = [ep |-> "resource", auth |-> authorization,
                           args |-> NoArgs, user |-> NoPayload, pc |-> "done"]
                /\ resp' = out
        /\ UNCHANGED <<conn_pool, phase, now, nticks, store, issued>>

-----------------------------------------------------------------------------
(* main.py: login and refresh *)

UserByEmail(email) == {u \in DOMAIN users : users[u].email = email}

\* the whole users row returned as the summary
UserSummary_WholeRow(user) == user

\* the user mapping of the TokenResponse
UserSummary(user) ==
    [id |-> user.id, email |-> user.email, username |-> user.username,
     is_staff |-> TRUE]

LoginClaims(user) == [sub |-> user.email, user_id |-> user.id, is_staff |-> TRUE]

\* the credential check without the verification of the password
CredentialsRejected_EmailOnly(rows, password) == rows = {}

\* `not user or not verify_password(data.password, user["hashed_password"])`
CredentialsRejected(rows, password) ==
    \/ rows = {}
    \/ ~verify_password(password, users[CHOOSE u \in rows : TRUE].hashed_password)

LoginOutcome(email, password, storeFails) ==
    IF get_postgres_raises THEN Propagated("RuntimeError")
    ELSE IF storeFails THEN HTTPException(500, "Login failed")
    ELSE LET rows == UserByEmail(email)
         IN  IF CredentialsRejected(rows, password)
             THEN HTTPException(401, "Invalid credentials")
             ELSE LET user == users[CHOOSE u \in rows : TRUE]
                  IN  IF ~user.is_staff
                      THEN HTTPException(403,
                               "Access denied. This portal is for staff only.")
                      ELSE Returned(
                               [kind |-> "TokenResponse",
                                access_token |->
                                    create_access_token(LoginClaims(user)),
                                refresh_token |->
                                    create_refresh_token(LoginClaims(user)),
                                user |-> UserSummary(user)])

staff_login(email, password, storeFails) ==
    LET out == LoginOutcome(email, password, storeFails)
    IN  /\ CanAccept
        /\ nreq' = nreq + 1
        /\ req' = [ep |-> "staff_login", auth |-> NoAuth,
                   args |-> [email |-> email, password |-> password],
                   user |-> NoPayload, pc |-> "done"]
        /\ resp' = out
        /\ issued' = IF out.raised = "none"
                     THEN issued \cup {out.body.access_token,
                                       out.body.refresh_token}
                     ELSE issued
        /\ UNCHANGED <<conn_pool, phase, now, nticks, store>>

\* the refresh check with the staff flag re-read from the store
RefreshPayloadOk_StoreChecked(payload) ==
    /\ payload /= NoPayload
    /\ payload.type = "refresh"
    /\ payload.user_id \in DOMAIN users
    /\ users[payload.user_id].is_staff

\* `not payload or payload.get("type") != "refresh"`, negated
RefreshPayloadOk(payload) == payload /= NoPayload /\ payload.type = "refresh"

RefreshClaims(payload) ==
    [sub |-> payload.sub, user_id |-> payload.user_id, is_staff |-> TRUE]

RefreshOutcome(refresh_token) ==
    IF get_postgres_raises THEN Propagated("RuntimeError")
    ELSE LET payload == decode_token(refresh_token)
         IN  IF ~RefreshPayloadOk(payload)
             THEN HTTPException(401, "Invalid refresh token")
             ELSE Returned([kind |-> "refresh",
                            access_token |->
                                create_access_token(RefreshClaims(payload))])

refresh_token_endpoint(refresh_token) ==
    LET out == RefreshOutcome(refresh_token)
    IN  /\ CanAccept
        /\ nreq' = nreq + 1
        /\ req' = [ep |-> "refresh_token_endpoint", auth |-> NoAuth,
                   args |-> [refresh_token |-> refresh_token],
                   user |-> NoPayload, pc |-> "done"]
        /\ resp' = out
        /\ issued' = IF out.raised = "none"
                     THEN issued \cup {out.body.access_token}
                     ELSE issued
        /\ UNCHANGED <<conn_pool, phase, now, nticks, store>>

-----------------------------------------------------------------------------
(* main.py: the resource handlers.  Each runs on a request the gate has   *)
(* passed; req.user is the claims the gate returned.                       *)

\* a handler that does not depend on the gate: it runs on any resource
\* request, whatever the gate said
GatePassed_NoDependency == phase = "serving" /\ req.ep = "resource"

\* Depends(get_current_staff): the gate has passed the request and its
\* handler body has not run yet
GatePassed == phase = "serving" /\ req.pc = "handler"

\* the handler body of endpoint ep, called with args, ends with outcome out
Handle(ep, args, out) ==
    /\ GatePassed
    /\ req' = [req EXCEPT !.ep = ep, !.args = args, !.pc = "done"]
    /\ resp' = out
    /\ UNCHANGED <<conn_pool, phase, now, nticks, issued, nreq>>

\* the rows with the given ids, by created_at descending (ids break ties:
\* a SERIAL id grows with created_at)
RECURSIVE OrderDesc(_, _)
OrderDesc(table, ids) ==
    IF ids = {} THEN <<>>
    ELSE LET first == CHOOSE i \in ids : \A j \in ids :
                          \/ table[j].created_at < table[i].created_at
                          \/ /\ table[j].created_at = table[i].created_at
                             /\ j <= i
         IN  <<first>> \o OrderDesc(table, ids \ {first})

DateOf(t) == t \div MinutesPerDay

DashboardOutcome(storeFails) ==
    IF storeFails
    THEN HTTPException(500, "Failed to fetch dashboard stats")
    ELSE Returned(
             [kind |-> "DashboardStats",
              open_tickets |-> Cardinality(
                  {t \in DOMAIN tickets : tickets[t].status = "open"}),
              in_progress_tickets |-> Cardinality(
                  {t \in DOMAIN tickets : tickets[t].status = "in_progress"}),
              closed_today |-> Cardinality(
                  {t \in DOMAIN tickets :
                       /\ tickets[t].status = "closed"
                       /\ DateOf(tickets[t].updated_at) = DateOf(now)}),
              total_articles |-> Cardinality(DOMAIN kb_articles)])

get_dashboard(storeFails) ==
    /\ Handle("get_dashboard", NoArgs, DashboardOutcome(storeFails))
    /\ UNCHANGED store

\* the filter test without the exception for 'all'
FilterApplies_NoAll(status) == status.present /\ status.value /= ""

\* `if status and status != 'all'`: None and the empty string are falsy
FilterApplies(status) ==
    status.present /\ status.value /= "" /\ status.value /= "all"

\* FROM tickets t JOIN users u ON t.user_id = u.id [WHERE t.status = $1]
SelectedTickets(status) ==
    {t \in DOMAIN tickets :
         /\ tickets[t].user_id \in DOMAIN users
         /\ FilterApplies(status) => tickets[t].status = status.value}

\* the messages of a ticket joined with their authors, oldest first
MessagesOf(t) ==
    LET mine == SelectSeq(ticket_messages,
                          LAMBDA m : m.ticket_id = t /\ m.user_id \in DOMAIN users)
    IN  [i \in DOMAIN mine |->
            [content |-> mine[i].message, author |-> users[mine[i].user_id].email]]

TicketDict(t) ==
    [id |-> t, title |-> tickets[t].title,
     description |-> tickets[t].description, status |-> tickets[t].status,
     priority |-> tickets[t].priority, created_at |-> tickets[t].created_at,
     user_email |-> users[tickets[t].user_id].email,
     messages |-> MessagesOf(t)]

TicketsOutcome(status, storeFails) ==
    IF storeFails THEN HTTPException(500, "Failed to fetch tickets")
    ELSE LET order == OrderDesc(tickets, SelectedTickets(status))
         IN  Returned([kind |-> "tickets",
                       rows |-> [i \in DOMAIN order |-> TicketDict(order[i])]])

get_tickets(status, storeFails) ==
    /\ Handle("get_tickets", [status |-> status],
              TicketsOutcome(status, storeFails))
    /\ UNCHANGED store

\* the UPDATE without its WHERE clause
UpdatedTickets_EveryRow(ticket_id, status) ==
    [t \in DOMAIN tickets |->
        [tickets[t] EXCEPT !.status = status, !.updated_at = now]]

\* UPDATE tickets SET status = $1, updated_at = NOW() WHERE id = $2
UpdatedTickets(ticket_id, status) ==
    [tickets EXCEPT ![ticket_id].status = status, ![ticket_id].updated_at = now]

update_ticket_status(ticket_id, status, storeFails) ==
    LET args == [ticket_id |-> ticket_id, status |-> status]
    IN  IF storeFails
        THEN /\ Handle("update_ticket_status", args,
                       HTTPException(500, "Failed to update ticket"))
             /\ UNCHANGED store
        ELSE IF ticket_id \notin DOMAIN tickets
        THEN /\ Handle("update_ticket_status", args,
                       HTTPException(404, "Ticket not found"))
             /\ UNCHANGED store
        ELSE /\ Handle("update_ticket_status", args,
                       Returned([kind |-> "status", status |-> "success"]))
             /\ tickets' = UpdatedTickets(ticket_id, status)
             /\ UNCHANGED <<users, ticket_messages, kb_articles, kb_next_id>>

\* the user_id column of the inserted ticket_messages row
MessageAuthor(user) == user.user_id

\* INSERT INTO ticket_messages: both foreign keys must be satisfied
MessageInsertFails(ticket_id, author) ==
    ticket_id \notin DOMAIN tickets \/ author \notin DOMAIN users

add_ticket_message(ticket_id, content, storeFails) ==
    LET args == [ticket_id |-> ticket_id, content |-> content]
        author == MessageAuthor(req.user)
    IN  IF storeFails \/ MessageInsertFails(ticket_id, author)
        THEN /\ Handle("add_ticket_message", args,
                       HTTPException(500, "Failed to add message"))
             /\ UNCHANGED store
        ELSE /\ Handle("add_ticket_message", args,
                       Returned([kind |-> "status", status |-> "success"]))
             /\ ticket_messages' =
                    Append(ticket_messages,
                           [ticket_id |-> ticket_id, user_id |-> author,
                            message |-> content])
             /\ UNCHANGED <<users, tickets, kb_articles, kb_next_id>>

ArticlesOutcome(storeFails) ==
    IF storeFails THEN HTTPException(500, "Failed to fetch articles")
    ELSE LET order == OrderDesc(kb_articles, DOMAIN kb_articles)
         IN  Returned([kind |-> "articles",
                       rows |-> [i \in DOMAIN order |->
                                    [id |-> order[i],
                                     title |-> kb_articles[order[i]].title,
                                     content |-> kb_articles[order[i]].content,
                                     category |-> kb_articles[order[i]].category,
                                     is_published |->
                                         kb_articles[order[i]].is_published,
                                     created_at |->
                                         kb_articles[order[i]].created_at]]])

get_all_articles(storeFails) ==
    /\ Handle("get_all_articles", NoArgs, ArticlesOutcome(storeFails))
    /\ UNCHANGED store

\* INSERT INTO kb_articles (title, category, content, is_published)
\* VALUES ($1, $2, $3, FALSE)
NewArticle(id, data) ==
    [id |-> id, title |-> data.title, category |-> data.category,
     content |-> data.content, is_published |-> FALSE,
     created_at |-> now, updated_at |-> now]

create_article(data, storeFails) ==
    LET args == [data |-> data]
    IN  IF storeFails
        THEN /\ Handle("create_article", args,
                       HTTPException(500, "Failed to create article"))
             /\ UNCHANGED store
        ELSE /\ Handle("create_article", args,
                       Returned([kind |-> "status", status |-> "created"]))
             /\ kb_articles' =
                    kb_articles @@ (kb_next_id :> NewArticle(kb_next_id, data))
             /\ kb_next_id' = kb_next_id + 1
             /\ UNCHANGED <<users, tickets, ticket_messages>>

\* variant: the UPDATE also writes the column default back, returning the
\* article to draft
UpdatedArticle_Unpublishes(row, data) ==
    [row EXCEPT !.title = data.title, !.category = data.category,
                !.content = data.content, !.is_published = FALSE,
                !.updated_at = now]

\* UPDATE kb_articles SET title, category, content, updated_at WHERE id = $4
UpdatedArticle(row, data) ==
    [row EXCEPT !.title = data.title, !.category = data.category,
                !.content = data.content, !.updated_at = now]

update_article(article_id, data, storeFails) ==
    LET args == [article_id |-> article_id, data |-> data]
    IN  IF storeFails
        THEN /\ Handle("update_article", args,
                       HTTPException(500, "Failed to update article"))
             /\ UNCHANGED store
        ELSE IF article_id \notin DOMAIN kb_articles
        THEN /\ Handle("update_article", args,
                       HTTPException(404, "Article not found"))
             /\ UNCHANGED store
        ELSE /\ Handle("update_article", args,
                       Returned([kind |-> "status", status |-> "updated"]))
             /\ kb_articles' =
                    [kb_articles EXCEPT ![article_id] = UpdatedArticle(@, data)]
             /\ UNCHANGED <<users, tickets, ticket_messages, kb_next_id>>

\* UPDATE kb_articles SET is_published = TRUE, updated_at = NOW() WHERE id = $1
PublishedArticle(row) ==
    [row EXCEPT !.is_published = TRUE, !.updated_at = now]

publish_article(article_id, storeFails) ==
    LET args == [article_id |-> article_id]
    IN  IF storeFails
        THEN /\ Handle("publish_article", args,
                       HTTPException(500, "Failed to publish article"))
             /\ UNCHANGED store
        ELSE IF article_id \notin DOMAIN kb_articles
        THEN /\ Handle("publish_article", args,
                       HTTPException(404, "Article not found"))
             /\ UNCHANGED store
        ELSE /\ Handle("publish_article", args,
                       Returned([kind |-> "status", status |-> "published"]))
             /\ kb_articles' =
                    [kb_articles EXCEPT ![article_id] = PublishedArticle(@)]
             /\ UNCHANGED <<users, tickets, ticket_messages, kb_next_id>>

delete_article(article_id, storeFails) ==
    LET args == [article_id |-> article_id]
    IN  IF storeFails
        THEN /\ Handle("delete_article", args,
                       HTTPException(500, "Failed to delete article"))
             /\ UNCHANGED store
        ELSE IF article_id \notin DOMAIN kb_articles
        THEN /\ Handle("delete_article", args,
                       HTTPException(404, "Article not found"))
             /\ UNCHANGED store
        ELSE /\ Handle("delete_article", args,
                       Returned([kind |-> "status", status |-> "deleted"]))
             /\ kb_articles' =
                    [a \in DOMAIN kb_articles \ {article_id} |-> kb_articles[a]]
             /\ UNCHANGED <<users, tickets, ticket_messages, kb_next_id>>

-----------------------------------------------------------------------------
Next ==
    \/ \E pool_ok \in BOOLEAN, ddl_ok \in BOOLEAN : init_postgres(pool_ok, ddl_ok)
    \/ close_postgres
    \/ \E d \in TickSteps : Tick(d)
    \/ \E u \in UserIds, flag \in BOOLEAN : SetStaff(u, flag)
    \/ \E u \in UserIds : DeleteUser(u)
    \/ \E email \in Emails, password \in Passwords, storeFails \in BOOLEAN :
           staff_login(email, password, storeFails)
    \/ \E tok \in Presentable : refresh_token_endpoint(tok)
    \/ \E authorization \in AuthValues, storeFails \in BOOLEAN :
           Request(authorization, storeFails)
    \/ \E storeFails \in BOOLEAN : get_dashboard(storeFails)
    \/ \E status \in StatusFilters, storeFails \in BOOLEAN :
           get_tickets(status, storeFails)
    \/ \E ticket_id \in TicketIds, status \in UpdateStatuses,
          storeFails \in BOOLEAN :
           update_ticket_status(ticket_id, status, storeFails)
    \/ \E ticket_id \in TicketIds, content \in Notes, storeFails \in BOOLEAN :
           add_ticket_message(ticket_id, content, storeFails)
    \/ \E storeFails \in BOOLEAN : get_all_articles(storeFails)
    \/ \E data \in ArticleData, storeFails \in BOOLEAN :
           create_article(data, storeFails)
    \/ \E article_id \in ArticleIds, data \in ArticleData,
          storeFails \in BOOLEAN :
           update_article(article_id, data, storeFails)
    \/ \E article_id \in ArticleIds, storeFails \in BOOLEAN :
           publish_article(article_id, storeFails)
    \/ \E article_id \in ArticleIds, storeFails \in BOOLEAN :
           delete_article(article_id, storeFails)

Spec == Init /\ [][Next]_vars

-----------------------------------------------------------------------------
(* Steps and tokens the properties speak of *)

\* req is a request to a resource endpoint (one behind the auth gate)
IsGateReq(r) == r.ep \notin {"none", "staff_login", "refresh_token_endpoint"}

\* this step is the arrival of a resource request: the gate runs on req'.auth
GateStep == nreq' = nreq + 1 /\ IsGateReq(req')

LoginStep == nreq' = nreq + 1 /\ req'.ep = "staff_login"

RefreshStep == nreq' = nreq + 1 /\ req'.ep = "refresh_token_endpoint"

\* this step is the handler body of a request the gate passed
HandlerStep == req.pc = "handler" /\ req'.pc = "done"

\* tok was signed by the codec as a token of this kind and has not expired
ValidIssued(tok, kind) ==
    tok \in issued /\ tok.payload.type = kind /\ tok.payload.exp >= now

\* the store failed while the gate was reading it
GateStoreFailure(r) == r.raised = "PostgresError"

Forbidden403 == HTTPException(403, "Access denied. Staff access only.")

-----------------------------------------------------------------------------
\* C1: a resource request bearing a well-formed, unexpired access token of a
\* user who exists is decided on the staff flag the store holds when the gate
\* reads it, not on the is_staff claim of the token: with the stored flag
\* false the request ends 403 Forbidden and no handler runs, with the flag
\* true the gate yields the token's claims.  So while a user's flag is false
\* every access token of that user, issued before the revocation or minted by
\* refresh after it, is rejected with 403.  (A failure of the store read
\* itself is the subject of C10.)
C1_StaffFlagReadFromStore ==
    [][(/\ GateStep
        /\ req'.auth.scheme = "Bearer"
        /\ ValidIssued(req'.auth.token, "access")
        /\ req'.auth.token.payload.user_id \in DOMAIN users
        /\ ~GateStoreFailure(resp'))
       => IF users[req'.auth.token.payload.user_id].is_staff
          THEN req'.pc = "handler" /\ req'.user = req'.auth.token.payload
          ELSE req'.pc = "done" /\ resp' = Forbidden403]_vars

\* a request made with an access token that refresh minted in this run (no
\* refresh token was issued with it), asserting is_staff, for a user whose
\* stored flag is false, has ended 403
C1_Witness ==
    /\ IsGateReq(req) /\ req.pc = "done"
    /\ resp = Forbidden403
    /\ ValidIssued(req.auth.token, "access")
    /\ req.auth.token.payload.is_staff
    /\ req.auth.token.payload.iat >= 0
    /\ \A tok \in issued : tok.payload.type = "refresh"
                              => tok.payload.iat /= req.auth.token.payload.iat
    /\ req.auth.token.payload.user_id \in DOMAIN users
    /\ ~users[req.auth.token.payload.user_id].is_staff

\* C2: a token is accepted only by the consumer of its own kind.  The gate
\* ends with 401, and runs no handler, for every Bearer token whose type claim
\* is not "access" (a validly signed, unexpired refresh token included); the
\* refresh endpoint ends with 401, and mints nothing, for every token whose
\* type claim is not "refresh" (a valid access token included).
C2_TokenKindMatchesConsumer ==
    [][/\ (/\ GateStep
           /\ req'.auth.scheme = "Bearer"
           /\ req'.auth.token.payload.type /= "access")
          => /\ req'.pc = "done"
             /\ resp'.raised = "HTTPException" /\ resp'.status = 401
       /\ (/\ RefreshStep
           /\ req'.args.refresh_token.payload.type /= "refresh")
          => /\ resp'.raised = "HTTPException" /\ resp'.status = 401
             /\ issued' = issued]_vars

\* a validly signed, unexpired refresh token was presented to the gate and
\* the request ended 401
C2_Witness ==
    /\ IsGateReq(req) /\ req.pc = "done"
    /\ req.auth.scheme = "Bearer"
    /\ ValidIssued(req.auth.token, "refresh")
    /\ resp.raised = "HTTPException" /\ resp.status = 401

\* C3: a resource request with no authorization value, with a value not using
\* the Bearer scheme, with a tampered token or with an expired token ends with
\* one and the same outcome: status 401 and the message of the missing-token
\* case, so the response does not tell which of these failures occurred.
C3_UniformUnauthenticated ==
    [][(/\ GateStep
        /\ \/ req'.auth.scheme /= "Bearer"
           \/ req'.auth.token.sig /= Sign(req'.auth.token.payload)
           \/ req'.auth.token.payload.exp < now)
       => resp' = HTTPException(401, "Not authenticated")]_vars

InvalidCredentials401 == HTTPException(401, "Invalid credentials")

LoginForbidden403 ==
    HTTPException(403, "Access denied. This portal is for staff only.")

LoginFailed500 == HTTPException(500, "Login failed")

\* the users rows with this email whose stored hash is the hash of password
Matching(email, password) ==
    {u \in DOMAIN users : /\ users[u].email = email
                          /\ users[u].hashed_password = hash_password(password)}

\* C4: when the store answers, staff_login ends with one and the same
\* InvalidCredentials outcome (401, same message) when no user has the email
\* and when the password does not verify against the stored hash, whatever
\* the staff flag; it ends with the Forbidden outcome (403) exactly when the
\* email exists, the password verifies and the stored staff flag is false.
C4_LoginFailuresUniform ==
    [][(LoginStep /\ resp' /= LoginFailed500)
       => LET ok == Matching(req'.args.email, req'.args.password)
          IN  /\ ok = {} => resp' = InvalidCredentials401
              /\ resp' = LoginForbidden403
                 <=> (ok /= {} /\ \A u \in ok : ~users[u].is_staff)
              /\ resp'.status = 403 => resp' = LoginForbidden403]_vars

\* bob, who is not staff, has logged in with a wrong password and received
\* 401 InvalidCredentials, not 403
C4_Witness ==
    /\ req.ep = "staff_login"
    /\ req.args.email = "bob@example.com"
    /\ req.args.password = "alice-pw"
    /\ 2 \in DOMAIN users
    /\ ~users[2].is_staff
    /\ resp = InvalidCredentials401

\* C5: when the store answers, staff_login issues tokens if and only if a user
\* with the email exists, the password verifies and the stored staff flag is
\* true.  On success it signs exactly one access and one refresh token with
\* the same claims (sub the email, user_id the id, is_staff true) and returns
\* them with a summary of id, email, username and staff flag that holds no
\* password hash; on every failure nothing is issued.
C5_LoginIssuesTokens ==
    [][LoginStep
       => LET staff == {u \in Matching(req'.args.email, req'.args.password) :
                            users[u].is_staff}
              body == resp'.body
          IN  /\ resp' /= LoginFailed500 => (resp'.status = 200 <=> staff /= {})
              /\ resp'.status = 200 =>
                     /\ resp'.raised = "none"
                     /\ \E u \in staff :
                            /\ body.access_token =
                                   AccessTokenAt([sub |-> users[u].email,
                                                  user_id |-> u,
                                                  is_staff |-> TRUE], now)
                            /\ body.refresh_token =
                                   RefreshTokenAt([sub |-> users[u].email,
                                                   user_id |-> u,
                                                   is_staff |-> TRUE], now)
                            /\ body.user = [id |-> u, email |-> users[u].email,
                                            username |-> users[u].username,
                                            is_staff |-> users[u].is_staff]
                     /\ "hashed_password" \notin DOMAIN body.user
                     /\ DOMAIN body =
                            {"kind", "access_token", "refresh_token", "user"}
                     /\ issued' = issued \cup {body.access_token,
                                               body.refresh_token}
              /\ resp'.status /= 200 => (issued' = issued /\ body = NoBody)]_vars

\* alice has logged in and holds the two tokens of this login
C5_Witness ==
    /\ req.ep = "staff_login"
    /\ resp.status = 200
    /\ resp.body.access_token.payload.iat = now
    /\ resp.body.access_token.payload.type = "access"
    /\ resp.body.refresh_token.payload.type = "refresh"
    /\ {resp.body.access_token, resp.body.refresh_token} \subseteq issued

\* C6: given a validly signed, unexpired refresh token, refresh_token_endpoint
\* returns exactly one new access token whose sub, user_id and is_staff claims
\* are those of the presented token, with a new expiry, and no refresh token;
\* it reads no table: the result is the same whether the stored staff flag of
\* the user is true or false and whether or not the user still exists.
C6_RefreshKeepsClaims ==
    [][(RefreshStep /\ ValidIssued(req'.args.refresh_token, "refresh"))
       => LET old == req'.args.refresh_token.payload
              body == resp'.body
          IN  /\ resp'.raised = "none" /\ resp'.status = 200
              /\ DOMAIN body = {"kind", "access_token"}
              /\ body.access_token.payload =
                     [sub |-> old.sub, user_id |-> old.user_id,
                      is_staff |-> old.is_staff, type |-> "access",
                      exp |-> now + ACCESS_TOKEN_EXPIRE_MINUTES, iat |-> now]
              /\ body.access_token.sig = Sign(body.access_token.payload)
              /\ issued' = issued \cup {body.access_token}
              /\ UNCHANGED store]_vars

\* a refresh has succeeded for a user whose row is gone or whose stored flag
\* is false
C6_Witness ==
    /\ req.ep = "refresh_token_endpoint"
    /\ resp.status = 200
    /\ resp.body.access_token \in issued
    /\ LET uid == req.args.refresh_token.payload.user_id
       IN  uid \in DOMAIN users => ~users[uid].is_staff

HandlerNames ==
    {"get_dashboard", "get_tickets", "update_ticket_status",
     "add_ticket_message", "get_all_articles", "create_article",
     "update_article", "publish_article", "delete_article"}

\* C7: the body of a resource handler runs only on a request that the gate
\* passed: every step that answers for a resource handler, and every change of
\* tickets, ticket messages or KB articles not made out of band, is the
\* handler step of a request whose claims the gate yielded from a validly
\* signed access token.  The arrival of a request, rejected or passed, changes
\* no table, and a message that add_ticket_message inserts has as author the
\* user_id of those claims.
C7_HandlerOnlyAfterGate ==
    [][/\ GateStep => UNCHANGED store
       /\ (\/ req'.ep \in HandlerNames /\ req' /= req
           \/ /\ <<tickets, ticket_messages, kb_articles, kb_next_id>>' /=
                     <<tickets, ticket_messages, kb_articles, kb_next_id>>
              /\ users' = users)
          => /\ HandlerStep
             /\ req.ep = "resource"
             /\ req.auth.scheme = "Bearer"
             /\ req.auth.token.sig = Sign(req.auth.token.payload)
             /\ req.auth.token.payload.type = "access"
             /\ req.user = req.auth.token.payload
       /\ (HandlerStep /\ ticket_messages' /= ticket_messages)
          => /\ req'.ep = "add_ticket_message"
             /\ ticket_messages' =
                    Append(ticket_messages,
                           [ticket_id |-> req'.args.ticket_id,
                            user_id |-> req.user.user_id,
                            message |-> req'.args.content])]_vars

\* add_ticket_message has inserted a message whose author is the user of the
\* claims
C7_Witness ==
    /\ req.ep = "add_ticket_message" /\ req.pc = "done"
    /\ resp.status = 200
    /\ ticket_messages /= <<>>
    /\ ticket_messages[Len(ticket_messages)].user_id = req.user.user_id
    /\ req.user.user_id = req.auth.token.payload.user_id

TicketNotFound404 == HTTPException(404, "Ticket not found")

UpdateFailed500 == HTTPException(500, "Failed to update ticket")

\* C8: when the store answers, update_ticket_status with a ticket id that is
\* not in the store ends 404 and changes no table; with an id that is in the
\* store it sets the status of that ticket to the requested value (and its
\* updated_at), changes nothing else of it, no other ticket and no other
\* table, and returns success.
C8_UpdateTicketStatus ==
    [][(HandlerStep /\ req'.ep = "update_ticket_status")
       => LET id == req'.args.ticket_id
          IN  /\ resp' = UpdateFailed500 => UNCHANGED store
              /\ (resp' /= UpdateFailed500 /\ id \notin DOMAIN tickets)
                 => (resp' = TicketNotFound404 /\ UNCHANGED store)
              /\ (resp' /= UpdateFailed500 /\ id \in DOMAIN tickets)
                 => /\ resp' = Returned([kind |-> "status", status |-> "success"])
                    /\ DOMAIN tickets' = DOMAIN tickets
                    /\ tickets'[id] =
                           [tickets[id] EXCEPT !.status = req'.args.status,
                                               !.updated_at = now]
                    /\ \A t \in DOMAIN tickets \ {id} : tickets'[t] = tickets[t]
                    /\ UNCHANGED <<users, ticket_messages, kb_articles,
                                   kb_next_id>>]_vars

\* an update of a ticket id that is not in the store has ended 404
C8_Witness ==
    /\ req.ep = "update_ticket_status" /\ req.pc = "done"
    /\ req.args.ticket_id \notin DOMAIN tickets
    /\ resp = TicketNotFound404
    /\ DOMAIN tickets = {1, 2}

\* the ids of the tickets a get_tickets response lists
ListedIds(r) == {r.body.rows[i].id : i \in DOMAIN r.body.rows}

TicketsFailed500 == HTTPException(500, "Failed to fetch tickets")

\* a successful update sets the status it was asked to set
UpdateSetsStatus ==
    (/\ HandlerStep /\ req'.ep = "update_ticket_status"
     /\ resp'.status = 200)
    => tickets'[req'.args.ticket_id].status = req'.args.status

\* the status of a stored ticket changes by a successful update of that
\* ticket and by nothing else
OnlyUpdateChangesStatus ==
    \A t \in DOMAIN tickets \cap DOMAIN tickets' :
        tickets'[t].status /= tickets[t].status
        => /\ HandlerStep /\ req'.ep = "update_ticket_status"
           /\ req'.args.ticket_id = t /\ resp'.status = 200

\* C9 as stated: after a successful update of ticket t to status s the ticket
\* has status s, and get_tickets with any filter other than absent or "all"
\* returns exactly the tickets whose stored status equals the filter, with the
\* filter absent or "all" every ticket.
C9_Original ==
    [][/\ UpdateSetsStatus
       /\ (/\ HandlerStep /\ req'.ep = "get_tickets"
           /\ resp' /= TicketsFailed500)
          => LET f == req'.args.status
             IN  /\ resp'.status = 200
                 /\ ListedIds(resp') =
                        IF f.present /\ f.value /= "all"
                        THEN {t \in DOMAIN tickets : tickets[t].status = f.value}
                        ELSE DOMAIN tickets]_vars

\* C9, amended: a successful update of ticket t to status s leaves t with
\* status s, which only another successful update of t changes while t is
\* stored; get_tickets with a non-empty filter other than "all" returns
\* exactly the stored tickets whose status equals the filter, each once with
\* its current status, and with the filter absent, empty or "all" every stored
\* ticket.  So a later get_tickets with filter s lists t, provided t is still
\* stored and no other status update of t happened in between.
C9_FilterByCurrentStatus ==
    [][/\ UpdateSetsStatus
       /\ OnlyUpdateChangesStatus
       /\ (/\ HandlerStep /\ req'.ep = "get_tickets"
           /\ resp' /= TicketsFailed500)
          => LET f == req'.args.status
                 rows == resp'.body.rows
             IN  /\ resp'.status = 200
                 /\ ListedIds(resp') =
                        IF f.present /\ f.value /= "" /\ f.value /= "all"
                        THEN {t \in DOMAIN tickets : tickets[t].status = f.value}
                        ELSE DOMAIN tickets
                 /\ Len(rows) = Cardinality(ListedIds(resp'))
                 /\ \A i \in DOMAIN rows :
                        rows[i].status = tickets[rows[i].id].status]_vars

\* ticket 1 was set to closed by an update and the get_tickets that followed,
\* with filter closed, lists it
C9_Witness ==
    /\ req.ep = "get_tickets" /\ req.pc = "done"
    /\ req.args.status = [present |-> TRUE, value |-> "closed"]
    /\ resp.status = 200
    /\ 1 \in ListedIds(resp)
    /\ 1 \in DOMAIN tickets
    /\ tickets[1].status = "closed"
    /\ tickets[1].updated_at >= 0

\* C10: no request ends with a raw exception leaving the application: every
\* failure of a store access while a request is served, the gate's included,
\* is translated into an HTTP outcome of the taxonomy (401, 403, 404, 500).
C10_NoRawStoreException ==
    req.pc = "done"
    => /\ resp.raised \in {"none", "HTTPException"}
       /\ resp.raised = "HTTPException" => resp.status \in {401, 403, 404, 500}

-----------------------------------------------------------------------------
\* the handler body of endpoint ep ran in this step and returned 200
Succeeded(ep) == HandlerStep /\ req'.ep = ep /\ resp'.status = 200

\* every article other than article_id is stored exactly as before
OtherArticlesKept(article_id) ==
    \A a \in DOMAIN kb_articles \ {article_id} :
        a \in DOMAIN kb_articles' /\ kb_articles'[a] = kb_articles[a]

\* C11: the published flag of a KB article only moves from draft to
\* published.  An article enters the store only by a successful
\* create_article, under a fresh id and as a draft holding the submitted
\* title, category and content; a successful publish_article sets the flag
\* of the targeted article and touches the flag of no other; a successful
\* update_article stores the submitted title, category and content and leaves
\* the flag as it was; no step of any operation, nor a clock tick, a restart
\* or a change of the users table, turns the flag of a stored article from
\* true to false, and the flag changes only by publish_article on that
\* article; an article leaves the store only by a successful delete_article
\* on its id, and its id is never handed out again.
C11_PublishedFlagMonotone ==
    [][/\ \A a \in DOMAIN kb_articles' \ DOMAIN kb_articles :
              /\ Succeeded("create_article")
              /\ a = kb_next_id
              /\ kb_next_id' > a
              /\ ~kb_articles'[a].is_published
              /\ kb_articles'[a].title = req'.args.data.title
              /\ kb_articles'[a].category = req'.args.data.category
              /\ kb_articles'[a].content = req'.args.data.content
       /\ Succeeded("create_article")
              => /\ DOMAIN kb_articles' = DOMAIN kb_articles \cup {kb_next_id}
                 /\ kb_next_id \notin DOMAIN kb_articles
                 /\ OtherArticlesKept(kb_next_id)
       /\ \A a \in DOMAIN kb_articles \cap DOMAIN kb_articles' :
              /\ kb_articles[a].is_published => kb_articles'[a].is_published
              /\ kb_articles'[a].is_published # kb_articles[a].is_published
                     => /\ Succeeded("publish_article")
                        /\ req'.args.article_id = a
       /\ Succeeded("publish_article")
              => /\ req'.args.article_id \in DOMAIN kb_articles
                 /\ req'.args.article_id \in DOMAIN kb_articles'
                 /\ kb_articles'[req'.args.article_id].is_published
                 /\ kb_articles'[req'.args.article_id].title =
                        kb_articles[req'.args.article_id].title
                 /\ kb_articles'[req'.args.article_id].category =
                        kb_articles[req'.args.article_id].category
                 /\ kb_articles'[req'.args.article_id].content =
                        kb_articles[req'.args.article_id].content
                 /\ OtherArticlesKept(req'.args.article_id)
       /\ Succeeded("update_article")
              => /\ req'.args.article_id \in DOMAIN kb_articles
                 /\ req'.args.article_id \in DOMAIN kb_articles'
                 /\ kb_articles'[req'.args.article_id].title =
                        req'.args.data.title
                 /\ kb_articles'[req'.args.article_id].category =
                        req'.args.data.category
                 /\ kb_articles'[req'.args.article_id].content =
                        req'.args.data.content
                 /\ kb_articles'[req'.args.article_id].is_published =
                        kb_articles[req'.args.article_id].is_published
                 /\ OtherArticlesKept(req'.args.article_id)
       /\ \A a \in DOMAIN kb_articles \ DOMAIN kb_articles' :
              /\ Succeeded("delete_article")
              /\ req'.args.article_id = a
              /\ a < kb_next_id'
       /\ kb_next_id' >= kb_next_id
       /\ \A a \in DOMAIN kb_articles' : a < kb_next_id'
      ]_vars

\* a published article was edited by update_article and is still published,
\* now under the submitted title
C11_Witness ==
    /\ req.pc = "done"
    /\ req.ep = "update_article"
    /\ resp.status = 200
    /\ req.args.article_id \in DOMAIN kb_articles
    /\ kb_articles[req.args.article_id].is_published
    /\ kb_articles[req.args.article_id].title = req.args.data.title
    /\ kb_articles[req.args.article_id].title = "Guide"
    /\ kb_articles[req.args.article_id].created_at < 0

====
